---- MODULE Spec2Model ----
(***************************************************************************)
(* Model of src/main.py: the crypto performance dashboard.                 *)
(*                                                                         *)
(* State: the two module-level holders latest_summary_df and               *)
(* latest_combined_data, the position and locals of a running              *)
(* display_crypto_data handler (the fetch loop of fetch_crypto_data        *)
(* advances one symbol per step, the answer of yf.download being an        *)
(* input of that step), and what the last handler showed and wrote.        *)
(*                                                                         *)
(* Prices are integers in thousandths of a currency unit, so 1004 is       *)
(* 1.004.  A percentage is an integer in hundredths of a percent, so 4940  *)
(* is the string "49.40%".                                                 *)
(*                                                                         *)
(* The two exports are operations that may be called whenever no handler   *)
(* runs.  The window, which creates their buttons only at the end of a     *)
(* display_crypto_data run that stored a summary, is not modelled.         *)
(***************************************************************************)
EXTENDS Integers, Sequences, FiniteSets

\* ------------------------------------------------------------------ bounds
\* Pieces of the entry text between commas.
MaxPieces == 2
\* Rows of a DataFrame returned by yf.download.
MaxRows == 2

\* Closing prices the data source may return (thousandths).
Prices == {0, 1004, 1500}
\* Pieces the user may type between two commas.
Pieces == {"", " ", " AAA ", "BBB"}
\* Destinations the save dialog may return; "" is a cancelled dialog.
Paths == {"", "out.csv"}

\* ------------------------------------------------------- Optional[...] values
None == <<>>
Some(x) == <<x>>
IsNone(o) == o = <<>>
Get(o) == o[1]

\* All sequences over S of length lo..hi.
SeqsOf(S, lo, hi) == UNION {[1..n -> S] : n \in lo..hi}

\* Number of positions of seq that hold x.
Count(seq, x) == Cardinality({i \in DOMAIN seq : seq[i] = x})

\* ------------------------------------------------ what yf.download answers
\* A pandas DataFrame: its columns, its index (timestamps ascending, here the
\* row numbers), the values of column Close (empty when there is no such
\* column) and the value of the constant column Symbol once it is set.
DataFrame(cols, n, closes) ==
    [kind |-> "DataFrame", columns |-> cols, index |-> [i \in 1..n |-> i],
     Close |-> closes, Symbol |-> ""]

\* yf.download raised.
Raised == [kind |-> "exception", columns |-> {}, index |-> <<>>, Close |-> <<>>, Symbol |-> ""]
\* yf.download returned None.
NoneData == [kind |-> "None", columns |-> {}, index |-> <<>>, Close |-> <<>>, Symbol |-> ""]

\* The answers of yf.download to one request.
Responses ==
    {Raised, NoneData}
    \cup {DataFrame({"Open", "Close"}, Len(c), c) : c \in SeqsOf(Prices, 0, MaxRows)}
    \cup {DataFrame({"Open"}, n, <<>>) : n \in 1..MaxRows}

\* DataFrame.empty: an axis of length 0.
empty(data) == Len(data.index) = 0 \/ data.columns = {}

\* ------------------------------------------------------ dict, in insertion order
\* A dict is the sequence of its items [key, value] in insertion order.
RECURSIVE dict_has(_, _)
dict_has(d, k) ==
    IF d = <<>> THEN FALSE
    ELSE IF Head(d).key = k THEN TRUE ELSE dict_has(Tail(d), k)

\* A list where a dict is meant: every assignment adds an item.
dict_append(d, k, v) == Append(d, [key |-> k, value |-> v])

\* d[k] = v: an existing key keeps its place and takes the new value.
dict_set(d, k, v) ==
    IF dict_has(d, k)
    THEN [i \in DOMAIN d |-> IF d[i].key = k THEN [key |-> k, value |-> v] ELSE d[i]]
    ELSE Append(d, [key |-> k, value |-> v])

keys(d) == {d[i].key : i \in DOMAIN d}

\* ------------------------------------------------------------- the entry text
\* str.strip of one piece.
strip(s) ==
    CASE s = " " -> ""
      [] s = " AAA " -> "AAA"
      [] OTHER -> s

\* [s.strip() for s in text.split(",") if s.strip()]
RECURSIVE parse_symbols(_)
parse_symbols(pieces) ==
    IF pieces = <<>> THEN <<>>
    ELSE IF strip(Head(pieces)) # ""
         THEN <<strip(Head(pieces))>> \o parse_symbols(Tail(pieces))
         ELSE parse_symbols(Tail(pieces))

\* ------------------------------------------------------------ fetch_crypto_data
\* Includes empty frames in the result.
includable_any_frame(data) == data.kind = "DataFrame"

\* data is not None and not data.empty
includable(data) == data.kind = "DataFrame" /\ ~empty(data)

\* data["Symbol"] = sym
tag(data, sym) == [data EXCEPT !.columns = @ \cup {"Symbol"}, !.Symbol = sym]

\* One iteration of the loop: the dict after symbol sym got the answer resp.
fetch_one(d, sym, resp) ==
    IF resp.kind = "exception" THEN d
    ELSE IF includable(resp) THEN dict_set(d, sym, tag(resp, sym))
    ELSE d

\* ------------------------------------------------------------ the summary table
\* round(x, 2) of a non-negative price; no price of the model lies on a tie.
round2(p) == ((p + 5) \div 10) * 10

\* n / d to the nearest integer, d > 0.
RoundDiv(n, d) == (2 * n + d) \div (2 * d)

\* The percentage from the rounded prices.
change_pct_rounded(start_price, end_price) ==
    RoundDiv((round2(end_price) - round2(start_price)) * 10000, round2(start_price))

\* f"{((end_price - start_price) / start_price) * 100:.2f}%", start_price # 0.
change_pct(start_price, end_price) ==
    RoundDiv((end_price - start_price) * 10000, start_price)

\* The body of the summary loop for one item: no row or one row.
summary_row(sym, data) ==
    IF "Close" \notin data.columns \/ Len(data.Close) = 0 THEN <<>>
    ELSE LET start_price == data.Close[1]
             end_price == data.Close[Len(data.Close)]
         IN IF start_price = 0 THEN <<>>
            ELSE << [Symbol |-> sym,
                     StartPrice |-> round2(start_price),
                     EndPrice |-> round2(end_price),
                     PctChange |-> change_pct(start_price, end_price)] >>

\* summary_data after the loop over combined_data.items().
RECURSIVE summarize(_)
summarize(d) ==
    IF d = <<>> THEN <<>>
    ELSE summary_row(Head(d).key, Head(d).value) \o summarize(Tail(d))

\* The plot loop raises KeyError at data["Close"] for a frame without it.
plot_raises(d) == \E i \in DOMAIN d : "Close" \notin d[i].value.columns

\* --------------------------------------------------------------- the CSV files
\* The rows of one frame after reset_index: the timestamp as a column.
frame_rows(data) ==
    [i \in DOMAIN data.index |->
        [Date |-> data.index[i],
         Close |-> IF "Close" \in data.columns THEN Some(data.Close[i]) ELSE None,
         Symbol |-> data.Symbol]]

\* A concatenation that leaves out the frames whose first close is 0.
RECURSIVE concat_nonzero(_)
concat_nonzero(d) ==
    IF d = <<>> THEN <<>>
    ELSE (IF Head(d).value.Close # <<>> /\ Head(d).value.Close[1] = 0
          THEN <<>> ELSE frame_rows(Head(d).value)) \o concat_nonzero(Tail(d))

\* pd.concat(latest_combined_data.values()) followed by reset_index.
RECURSIVE concat(_)
concat(d) ==
    IF d = <<>> THEN <<>>
    ELSE frame_rows(Head(d).value) \o concat(Tail(d))

SummaryColumns == <<"Symbol", "Start Price", "End Price", "% Change">>

\* summary_df.to_csv(file_path, index=False)
summary_csv(path, rows) == [path |-> path, header |-> SummaryColumns, rows |-> rows]

\* combined_df.to_csv(file_path, index=False)
full_csv(path, rows) == [path |-> path, header |-> <<"Date", "Close", "Symbol">>, rows |-> rows]

\* ------------------------------------------------------------------- the state
VARIABLES
    latest_summary_df,     \* Optional: the rows of the stored summary DataFrame
    latest_combined_data,  \* Optional: the stored dict symbol -> DataFrame
    pc,                    \* "idle", or "fetch" while fetch_crypto_data loops
    symbols,               \* display_crypto_data: the parsed symbols
    rest,                  \* fetch_crypto_data: the symbols the loop has yet to visit
    requests,              \* the symbols yf.download was called with, in call order
    responses,             \* what each of these calls answered
    data_dict,             \* fetch_crypto_data: data_dict, then combined_data
    summary_data,          \* Optional: summary_data once the summary loop has run
    handler,               \* the handler that ran last
    notice,                \* the message box the last handler showed, "" for none
    written                \* Optional: the file the last handler wrote

vars == <<latest_summary_df, latest_combined_data, pc, symbols, rest, requests,
          responses, data_dict, summary_data, handler, notice, written>>

snapshot == <<latest_summary_df, latest_combined_data>>
locals == <<symbols, rest, requests, responses, data_dict, summary_data>>

Init ==
    /\ latest_summary_df = None
    /\ latest_combined_data = None
    /\ pc = "idle"
    /\ symbols = <<>>
    /\ rest = <<>>
    /\ requests = <<>>
    /\ responses = <<>>
    /\ data_dict = <<>>
    /\ summary_data = None
    /\ handler = "none"
    /\ notice = ""
    /\ written = None

\* ---------------------------------------------------------- display_crypto_data
\* The button "Show Performance" with the entry holding the pieces joined by
\* commas: parse, reject an entry without symbols, else enter fetch_crypto_data.
display_crypto_data(pieces) ==
    /\ pc = "idle"
    /\ handler' = "display"
    /\ written' = None
    /\ symbols' = parse_symbols(pieces)
    /\ requests' = <<>>
    /\ responses' = <<>>
    /\ data_dict' = <<>>
    /\ summary_data' = None
    /\ UNCHANGED snapshot
    /\ IF parse_symbols(pieces) = <<>>
       THEN /\ notice' = "Input Error"
            /\ rest' = <<>>
            /\ pc' = "idle"
       ELSE /\ notice' = ""
            /\ rest' = parse_symbols(pieces)
            /\ pc' = "fetch"

\* A loop that gives the batch up at the first exception.
fetch_crypto_data_abort(resp) ==
    /\ pc = "fetch"
    /\ rest # <<>>
    /\ requests' = Append(requests, Head(rest))
    /\ responses' = Append(responses, resp)
    /\ data_dict' = fetch_one(data_dict, Head(rest), resp)
    /\ rest' = IF resp.kind = "exception" THEN <<>> ELSE Tail(rest)
    /\ UNCHANGED <<snapshot, pc, symbols, summary_data, handler, notice, written>>

\* One iteration of the loop of fetch_crypto_data: the next symbol is requested
\* and the data source answers resp.
fetch_crypto_data(resp) ==
    /\ pc = "fetch"
    /\ rest # <<>>
    /\ requests' = Append(requests, Head(rest))
    /\ responses' = Append(responses, resp)
    /\ data_dict' = fetch_one(data_dict, Head(rest), resp)
    /\ rest' = Tail(rest)
    /\ UNCHANGED <<snapshot, pc, symbols, summary_data, handler, notice, written>>

\* Stores the fetch result before looking whether it is empty.
display_fetched_store_first ==
    /\ pc = "fetch"
    /\ rest = <<>>
    /\ pc' = "idle"
    /\ latest_combined_data' = Some(data_dict)
    /\ IF data_dict = <<>>
       THEN /\ notice' = "No valid data fetched"
            /\ UNCHANGED <<latest_summary_df, summary_data>>
       ELSE IF plot_raises(data_dict)
       THEN /\ notice' = "An error occurred"
            /\ UNCHANGED <<latest_summary_df, summary_data>>
       ELSE /\ summary_data' = Some(summarize(data_dict))
            /\ IF summarize(data_dict) = <<>>
               THEN /\ notice' = "No summary data available"
                    /\ UNCHANGED latest_summary_df
               ELSE /\ notice' = ""
                    /\ latest_summary_df' = Some(summarize(data_dict))
    /\ UNCHANGED <<symbols, rest, requests, responses, data_dict, handler, written>>

\* fetch_crypto_data returns and display_crypto_data goes on: the empty result,
\* the store, the plot, the summary table.
display_fetched ==
    /\ pc = "fetch"
    /\ rest = <<>>
    /\ pc' = "idle"
    /\ IF data_dict = <<>>
       THEN /\ notice' = "No valid data fetched"
            /\ UNCHANGED <<snapshot, summary_data>>
       ELSE /\ latest_combined_data' = Some(data_dict)
            /\ IF plot_raises(data_dict)
               THEN /\ notice' = "An error occurred"
                    /\ UNCHANGED <<latest_summary_df, summary_data>>
               ELSE /\ summary_data' = Some(summarize(data_dict))
                    /\ IF summarize(data_dict) = <<>>
                       THEN /\ notice' = "No summary data available"
                            /\ UNCHANGED latest_summary_df
                       ELSE /\ notice' = ""
                            /\ latest_summary_df' = Some(summarize(data_dict))
    /\ UNCHANGED <<symbols, rest, requests, responses, data_dict, handler, written>>

\* ------------------------------------------------------------------ the exports
\* An export that hands the summary over: the holder is cleared once written.
export_summary_to_csv_consuming(file_path, io_ok) ==
    /\ pc = "idle"
    /\ handler' = "export_summary"
    /\ IF IsNone(latest_summary_df) \/ Get(latest_summary_df) = <<>>
       THEN notice' = "No Data" /\ written' = None /\ UNCHANGED latest_summary_df
       ELSE IF file_path = ""
       THEN notice' = "" /\ written' = None /\ UNCHANGED latest_summary_df
       ELSE IF io_ok
       THEN /\ notice' = "Export Successful"
            /\ written' = Some(summary_csv(file_path, Get(latest_summary_df)))
            /\ latest_summary_df' = None
       ELSE notice' = "Failed to export CSV" /\ written' = None /\ UNCHANGED latest_summary_df
    /\ UNCHANGED <<latest_combined_data, pc, locals>>

\* The button "Export Summary to CSV"; the dialog returns file_path and the
\* write succeeds or raises.
export_summary_to_csv(file_path, io_ok) ==
    /\ pc = "idle"
    /\ handler' = "export_summary"
    /\ IF IsNone(latest_summary_df) \/ Get(latest_summary_df) = <<>>
       THEN notice' = "No Data" /\ written' = None
       ELSE IF file_path = ""
       THEN notice' = "" /\ written' = None
       ELSE IF io_ok
       THEN /\ notice' = "Export Successful"
            /\ written' = Some(summary_csv(file_path, Get(latest_summary_df)))
       ELSE notice' = "Failed to export CSV" /\ written' = None
    /\ UNCHANGED <<snapshot, pc, locals>>

\* An export without the guard: no stored dict is written as an empty table.
export_full_data_to_csv_unguarded(file_path, io_ok) ==
    /\ pc = "idle"
    /\ handler' = "export_full"
    /\ IF file_path = ""
       THEN notice' = "" /\ written' = None
       ELSE IF io_ok
       THEN /\ notice' = "Export Successful"
            /\ written' = Some(full_csv(file_path,
                   IF IsNone(latest_combined_data) THEN <<>>
                   ELSE concat(Get(latest_combined_data))))
       ELSE notice' = "Failed to export full dataset" /\ written' = None
    /\ UNCHANGED <<snapshot, pc, locals>>

\* The button "Export Full Historical Data".  pd.concat of no frames raises,
\* which the handler reports like a failed write.
export_full_data_to_csv(file_path, io_ok) ==
    /\ pc = "idle"
    /\ handler' = "export_full"
    /\ IF IsNone(latest_combined_data)
       THEN notice' = "No Data" /\ written' = None
       ELSE IF file_path = ""
       THEN notice' = "" /\ written' = None
       ELSE IF io_ok /\ Get(latest_combined_data) # <<>>
       THEN /\ notice' = "Export Successful"
            /\ written' = Some(full_csv(file_path, concat(Get(latest_combined_data))))
       ELSE notice' = "Failed to export full dataset" /\ written' = None
    /\ UNCHANGED <<snapshot, pc, locals>>

\* ---------------------------------------------------------- the specifications
\* The entry texts: 1..MaxPieces pieces joined by commas.
Entries == SeqsOf(Pieces, 1, MaxPieces)

\* The application: every handler, any number of times.  The data source
\* answers a request with an exception, an empty frame, a frame without
\* Close, a rising series or a series that starts at 0.
AppResponses ==
    {Raised,
     DataFrame({"Open", "Close"}, 0, <<>>),
     DataFrame({"Open"}, 1, <<>>),
     DataFrame({"Open", "Close"}, 2, <<1004, 1500>>),
     DataFrame({"Open", "Close"}, 2, <<0, 1500>>)}

Next ==
    \/ \E pieces \in Entries : display_crypto_data(pieces)
    \/ \E resp \in AppResponses : fetch_crypto_data(resp)
    \/ display_fetched
    \/ \E file_path \in Paths, io_ok \in BOOLEAN : export_summary_to_csv(file_path, io_ok)
    \/ \E file_path \in Paths, io_ok \in BOOLEAN : export_full_data_to_csv(file_path, io_ok)

Spec == Init /\ [][Next]_vars

\* The application when every frame the data source returns carries the
\* column Close, as a frame of yf.download does.
SeriesResponses == {r \in AppResponses : r.kind = "DataFrame" => "Close" \in r.columns}

NextSeries ==
    \/ \E pieces \in Entries : display_crypto_data(pieces)
    \/ \E resp \in SeriesResponses : fetch_crypto_data(resp)
    \/ display_fetched
    \/ \E file_path \in Paths, io_ok \in BOOLEAN : export_summary_to_csv(file_path, io_ok)
    \/ \E file_path \in Paths, io_ok \in BOOLEAN : export_full_data_to_csv(file_path, io_ok)

SpecSeries == Init /\ [][NextSeries]_vars

\* One run of display_crypto_data from the initial state, over every entry
\* text and every answer of the data source: the fetch and the summary as
\* functions of their inputs.
NextRun ==
    \/ handler = "none" /\ \E pieces \in Entries : display_crypto_data(pieces)
    \/ \E resp \in Responses : fetch_crypto_data(resp)
    \/ display_fetched

SpecRun == Init /\ [][NextRun]_vars

\* ==================================================================== claims
\* Helpers of the statements below.

\* The answer gives nothing to include: an exception, None or no rows.
IsFailure(resp) == resp.kind # "DataFrame" \/ Len(resp.index) = 0

\* The set of the input symbols.
SymbolSet == {symbols[i] : i \in DOMAIN symbols}

\* The positions of the input that hold symbol s.
Occurrences(s) == {i \in DOMAIN symbols : symbols[i] = s}

\* The run of display_crypto_data has ended (or none has begun).
Returned == pc = "idle"

\* Item i of dict d has closing prices and the first of them is not 0.
Qualifies(d, i) == d[i].value.Close # <<>> /\ d[i].value.Close[1] # 0

\* Item i of dict d has closing prices and the first of them is 0.
ZeroStart(d, i) == d[i].value.Close # <<>> /\ d[i].value.Close[1] = 0

\* How many of the items 1..i of d qualify.
Rank(d, i) == Cardinality({k \in 1..i : Qualifies(d, k)})

\* h is x / y * 100 in hundredths, to the nearest hundredth (y > 0).
NearestPct(h, x, y) ==
    LET e == h * y - x * 10000 IN 2 * (IF e < 0 THEN -e ELSE e) <= y

\* r is price p to the nearest hundredth of a unit.
NearestCent(r, p) ==
    r % 10 = 0 /\ (IF r < p THEN p - r ELSE r - p) <= 5

\* The rows of table rows that carry symbol s.
RowsOf(rows, s) == {j \in DOMAIN rows : rows[j].Symbol = s}

\* --------------------------------------------------------------------------
\* C1: after any sequence of fetch requests the stored summary and the stored
\* fetch result derive from the same fetch: whenever no handler runs, the
\* stored summary is the summary of the stored fetch result (none, or no
\* rows, when that has no summarizable symbol).
C1_SameFetch ==
    Returned =>
        IF IsNone(latest_combined_data) THEN IsNone(latest_summary_df)
        ELSE \/ /\ IsNone(latest_summary_df)
                /\ \A i \in DOMAIN Get(latest_combined_data) :
                       ~Qualifies(Get(latest_combined_data), i)
             \/ /\ ~IsNone(latest_summary_df)
                /\ Len(Get(latest_summary_df))
                     = Rank(Get(latest_combined_data), Len(Get(latest_combined_data)))
                /\ \A i \in DOMAIN Get(latest_combined_data) :
                       Qualifies(Get(latest_combined_data), i) =>
                       \E j \in DOMAIN Get(latest_summary_df) :
                           LET row == Get(latest_summary_df)[j]
                               data == Get(latest_combined_data)[i].value
                           IN /\ row.Symbol = Get(latest_combined_data)[i].key
                              /\ NearestCent(row.StartPrice, data.Close[1])
                              /\ NearestCent(row.EndPrice, data.Close[Len(data.Close)])

\* --------------------------------------------------------------------------
\* C2: the mapping fetch_crypto_data builds and returns has only requested
\* symbols as keys and only non-empty series as values, and it is empty
\* exactly when every answer so far was an exception, None or without rows.
C2_FetchResult ==
    /\ keys(data_dict) \subseteq SymbolSet
    /\ \A i \in DOMAIN data_dict :
           /\ data_dict[i].value.kind = "DataFrame"
           /\ Len(data_dict[i].value.index) > 0
    /\ (data_dict = <<>>) <=> (\A j \in DOMAIN responses : IsFailure(responses[j]))

\* A returned fetch of two symbols, one failed and one included.
C2_Witness ==
    /\ Returned
    /\ Len(requests) = 2
    /\ IsFailure(responses[1])
    /\ ~IsFailure(responses[2])
    /\ Len(data_dict) = 1

\* --------------------------------------------------------------------------
\* C3 as stated: in a built summary the rows are those of the symbols with a
\* non-empty series whose first close is not 0, in the order of the fetch
\* result, StartPrice being the first close, EndPrice the last close and
\* PercentChange exactly (last - first) / first * 100.
C3_RowsExact ==
    (Returned /\ ~IsNone(summary_data)) =>
        /\ Len(Get(summary_data)) = Rank(data_dict, Len(data_dict))
        /\ \A i \in DOMAIN data_dict :
               Qualifies(data_dict, i) =>
                   LET row == Get(summary_data)[Rank(data_dict, i)]
                       close == data_dict[i].value.Close
                   IN /\ row.Symbol = data_dict[i].key
                      /\ row.StartPrice = close[1]
                      /\ row.EndPrice = close[Len(close)]
                      /\ row.PctChange * close[1] = (close[Len(close)] - close[1]) * 10000

\* C3 as amended: in a built summary the rows are those of the symbols with a
\* non-empty series whose first close is not 0, in the order of the fetch
\* result; StartPrice and EndPrice are the first and the last close rounded
\* to 2 decimals, and PercentChange is (last - first) / first * 100 of the
\* unrounded closes, to 2 decimals.
C3_RowsRounded ==
    (Returned /\ ~IsNone(summary_data)) =>
        /\ Len(Get(summary_data)) = Rank(data_dict, Len(data_dict))
        /\ \A i \in DOMAIN data_dict :
               Qualifies(data_dict, i) =>
                   LET row == Get(summary_data)[Rank(data_dict, i)]
                       close == data_dict[i].value.Close
                   IN /\ row.Symbol = data_dict[i].key
                      /\ NearestCent(row.StartPrice, close[1])
                      /\ NearestCent(row.EndPrice, close[Len(close)])
                      /\ NearestPct(row.PctChange, close[Len(close)] - close[1], close[1])

\* A summary of two fetched symbols: the first starts at 0 and has no row, the
\* second goes from 1.004 to 1.5 and has the only row.
C3_Witness ==
    /\ Returned
    /\ Len(data_dict) = 2
    /\ ZeroStart(data_dict, 1)
    /\ data_dict[2].value.Close = <<1004, 1500>>
    /\ ~IsNone(summary_data)
    /\ Len(Get(summary_data)) = 1
    /\ Get(summary_data)[1].Symbol = data_dict[2].key

\* --------------------------------------------------------------------------
\* C4: the fetch requests every input symbol once, in input order, whatever
\* the earlier answers were, and returns only when all have been requested.
C4_EveryAttempted ==
    /\ Len(responses) = Len(requests)
    /\ pc = "fetch" => requests \o rest = symbols
    /\ Returned => requests = symbols

\* A returned fetch whose first request raised and whose second was made.
C4_Witness ==
    /\ Returned
    /\ Len(symbols) = 2
    /\ requests = symbols
    /\ responses[1].kind = "exception"
    /\ ~IsFailure(responses[2])

\* --------------------------------------------------------------------------
\* C5: a fetched symbol whose first close is 0 has no row in the summary of
\* its fetch, and a full-history export writes all rows of its series, each
\* tagged with the symbol.
C5_ZeroStartInCombined ==
    /\ (Returned /\ ~IsNone(summary_data)) =>
           \A i \in DOMAIN data_dict :
               ZeroStart(data_dict, i) =>
                   RowsOf(Get(summary_data), data_dict[i].key) = {}
    /\ (handler = "export_full" /\ ~IsNone(written)) =>
           \A i \in DOMAIN Get(latest_combined_data) :
               LET item == Get(latest_combined_data)[i]
                   rows == Get(written).rows
               IN ZeroStart(Get(latest_combined_data), i) =>
                   /\ Cardinality(RowsOf(rows, item.key)) = Len(item.value.Close)
                   /\ \A k \in DOMAIN item.value.Close :
                          \E j \in RowsOf(rows, item.key) :
                              /\ rows[j].Date = item.value.index[k]
                              /\ rows[j].Close = Some(item.value.Close[k])

\* A full export after a fetch of a rising symbol and of one with closes
\* [0, 1.5]: the summary has the one row, the file the rows of both.
C5_Witness ==
    /\ handler = "export_full"
    /\ ~IsNone(written)
    /\ Get(latest_combined_data) = data_dict
    /\ Len(data_dict) = 2
    /\ Qualifies(data_dict, 1)
    /\ data_dict[2].value.Close = <<0, 1500>>
    /\ ~IsNone(summary_data)
    /\ Len(Get(summary_data)) = 1
    /\ Cardinality(RowsOf(Get(written).rows, data_dict[2].key)) = 2

\* --------------------------------------------------------------------------
\* C6: an export called while its holder is unset (the summary export also
\* while the stored summary has no rows) writes no file, shows the "No Data"
\* notice and returns.
C6_ExportGuards ==
    [][ /\ (handler' = "export_summary"
              /\ (IsNone(latest_summary_df) \/ Get(latest_summary_df) = <<>>))
            => (IsNone(written') /\ notice' = "No Data" /\ pc' = "idle")
        /\ (handler' = "export_full" /\ IsNone(latest_combined_data))
            => (IsNone(written') /\ notice' = "No Data" /\ pc' = "idle") ]_vars

\* The full export called after a fetch that got nothing, before any fetch
\* has stored a result.
C6_Witness ==
    /\ handler = "export_full"
    /\ notice = "No Data"
    /\ IsNone(written)
    /\ IsNone(latest_combined_data)
    /\ requests # <<>>

\* --------------------------------------------------------------------------
\* C7: on every path an export leaves both holders as they are, and a file it
\* writes holds the stored snapshot, so the export can be repeated.
C7_ExportsReadOnly ==
    [][ /\ handler' \in {"export_summary", "export_full"} => UNCHANGED snapshot
        /\ (handler' = "export_summary" /\ ~IsNone(written'))
            => Get(written').rows = Get(latest_summary_df)
        /\ (handler' = "export_full" /\ ~IsNone(written'))
            => \A i \in DOMAIN Get(latest_combined_data) :
                   Cardinality(RowsOf(Get(written').rows, Get(latest_combined_data)[i].key))
                     = Len(Get(latest_combined_data)[i].value.index) ]_vars

\* The summary export has written the stored summary, which is still stored.
C7_Witness ==
    /\ handler = "export_summary"
    /\ notice = "Export Successful"
    /\ ~IsNone(written)
    /\ ~IsNone(latest_summary_df)
    /\ Get(written).rows = Get(latest_summary_df)

\* --------------------------------------------------------------------------
\* C8 as stated: a symbol that occurs k times in the input, each fetch of it
\* succeeding, is requested k times and has k entries in the fetch result.
C8_ReportedKTimes ==
    Returned =>
        \A s \in SymbolSet :
            (\A i \in Occurrences(s) : ~IsFailure(responses[i])) =>
                /\ Count(requests, s) = Count(symbols, s)
                /\ Cardinality({i \in DOMAIN data_dict : data_dict[i].key = s})
                     = Count(symbols, s)

\* C8 as amended: a symbol that occurs k times in the input, each fetch of it
\* succeeding, is requested k times and reported once: the fetch result has
\* one entry for it, which holds the series of its last request, the summary
\* has at most one row for it, and the combined rows tagged with it are the
\* rows of that series.
C8_ReportedOnce ==
    Returned =>
        \A s \in SymbolSet :
            (\A i \in Occurrences(s) : ~IsFailure(responses[i])) =>
                LET last == CHOOSE i \in Occurrences(s) :
                                \A k \in Occurrences(s) : k <= i
                    entries == {i \in DOMAIN data_dict : data_dict[i].key = s}
                IN /\ Count(requests, s) = Count(symbols, s)
                   /\ Cardinality(entries) = 1
                   /\ \A i \in entries :
                          /\ data_dict[i].value.Close = responses[last].Close
                          /\ data_dict[i].value.index = responses[last].index
                          /\ data_dict[i].value.Symbol = s
                   /\ ~IsNone(summary_data) =>
                          Cardinality(RowsOf(Get(summary_data), s)) <= 1
                   /\ Cardinality(RowsOf(concat(data_dict), s))
                        = Len(responses[last].index)

\* The same symbol entered twice, fetched twice with different series.
C8_Witness ==
    /\ Returned
    /\ Len(symbols) = 2
    /\ symbols[1] = symbols[2]
    /\ requests = symbols
    /\ ~IsFailure(responses[1])
    /\ ~IsFailure(responses[2])
    /\ responses[1] # responses[2]
    /\ Len(data_dict) = 1

\* --------------------------------------------------------------------------
\* C9: a fetched symbol without closing prices, with no rows or with a first
\* close of 0 costs only its own row: once a run with a non-empty fetch
\* result has ended, every other fetched symbol has its row in the stored
\* summary.
C9_OthersSummarized ==
    (Returned /\ handler = "display" /\ data_dict # <<>>) =>
        \A i \in DOMAIN data_dict :
            Qualifies(data_dict, i) =>
                /\ ~IsNone(latest_summary_df)
                /\ \E j \in DOMAIN Get(latest_summary_df) :
                       LET row == Get(latest_summary_df)[j]
                           close == data_dict[i].value.Close
                       IN /\ row.Symbol = data_dict[i].key
                          /\ NearestCent(row.StartPrice, close[1])
                          /\ NearestCent(row.EndPrice, close[Len(close)])

\* --------------------------------------------------------------------------
\* C10: a request rejected for having no symbol, and a fetch that got nothing,
\* leave both holders as they are and the handler ready to run again; a fetch
\* that got something replaces the stored fetch result, and the stored
\* summary too when a fetched series has a first close other than 0 and none
\* lacks the closing prices.
C10_FailedFetchKeepsSnapshot ==
    [][ /\ (pc = "idle" /\ handler' = "display" /\ symbols' = <<>>)
            => (UNCHANGED snapshot /\ pc' = "idle")
        /\ (pc = "fetch" /\ pc' = "idle" /\ data_dict = <<>>)
            => UNCHANGED snapshot
        /\ (pc = "fetch" /\ pc' = "idle" /\ data_dict # <<>>)
            => /\ latest_combined_data' = Some(data_dict)
               /\ ((\A i \in DOMAIN data_dict : "Close" \in data_dict[i].value.columns)
                    /\ (\E i \in DOMAIN data_dict : Qualifies(data_dict, i)))
                  => /\ ~IsNone(latest_summary_df')
                     /\ \A j \in DOMAIN Get(latest_summary_df') :
                            Get(latest_summary_df')[j].Symbol \in keys(data_dict) ]_vars

\* A fetch that got nothing has ended while an earlier snapshot is stored.
C10_Witness ==
    /\ Returned
    /\ handler = "display"
    /\ requests # <<>>
    /\ data_dict = <<>>
    /\ ~IsNone(latest_combined_data)
    /\ ~IsNone(latest_summary_df)

====
